---- MODULE Spec2Model ----
(***************************************************************************)
(* Playout engine of frameserve (src/src/playout.rs, src/src/duration.rs). *)
(*                                                                         *)
(* A library of packages is assembled once by Playlist::new into four      *)
(* streams and a channel-level sources map; afterwards every request       *)
(* renders a variant playlist from (playlist, stream, now).                *)
(*                                                                         *)
(* Vectors are TLA+ sequences (1-based); the code's 0-based indices are    *)
(* kept as they are and Nth(s, i) reads element i of a vector.             *)
(* A panic of the code (unwrap on None, index out of range, division by    *)
(* zero, arithmetic underflow) is an explicit result, never left out.      *)
(***************************************************************************)
EXTENDS Integers, Sequences, FiniteSets

VARIABLES
    phase,      \* "startup" | "serving" | "crashed" (Playlist::new panicked)
    packages,   \* the decoded packages handed to Playlist::new, in order
    speed,      \* config.speed
    playlist,   \* the assembled Playlist (leaked into AppState), or None
    clock,      \* Timestamp::now(): the wall clock, in whole seconds
    response,   \* the last answer of hls_variant_playlist, or None
    restarts,   \* how many times the server process has been started again
    index,      \* the last answer of hls_index_playlist, or None
    inflight,   \* per worker: the request it is in the middle of, or Idle
    directory,  \* the entries of the packages directory, as read_dir lists them
    term_bases, \* duration arithmetic: the time base of each duration
    term_ticks, \* duration arithmetic: the raw tick count of each duration
    summed,     \* duration arithmetic: the durations added so far (indices)
    running     \* duration arithmetic: the running sum on the step clock

serverVars == <<phase, packages, speed, playlist, clock, response>>
opsVars == <<restarts, index>>
durationVars == <<term_bases, term_ticks, summed, running>>
vars == <<serverVars, opsVars, inflight, directory, durationVars>>

None == [none |-> TRUE]

\* ------------------------------------------------------------------ bounds
MaxNow == 7
MaxPackages == 2

\* ------------------------------------------------------- program constants
N_STREAMS == 4
LOOKAHEAD == 16
TARGETDURATION == 10

\* ------------------------------------------------------------- vectors
Nth(s, i) == s[i + 1]

InRange(s, i) == i >= 0 /\ i < Len(s)

\* s[from..to) of a vector, 0-based half-open like a Rust slice
Slice(s, from, to) == [k \in 1..(to - from) |-> s[from + k]]

RECURSIVE SumSeq(_)
SumSeq(s) == IF s = <<>> THEN 0 ELSE Head(s) + SumSeq(Tail(s))

Min(S) == CHOOSE x \in S : \A y \in S : x <= y
Max(S) == CHOOSE x \in S : \A y \in S : x >= y

\* ------------------------------------------------------ duration.rs
RECURSIVE Gcd(_, _)
Gcd(a, b) == IF b = 0 THEN a ELSE Gcd(b, a % b)

Lcm(a, b) == (a \div Gcd(a, b)) * b

RECURSIVE LcmSeq(_)
LcmSeq(s) == IF Len(s) = 1 THEN s[1] ELSE Lcm(LcmSeq(SubSeq(s, 1, Len(s) - 1)), s[Len(s)])

\* StepSize::calculate: lcm of the denominators; None (unwrap panics) when
\* there is no time base at all.
StepSizeCalculate(time_bases) ==
    IF time_bases = <<>> THEN [panic |-> "no time base"]
    ELSE [panic |-> "",
          value |-> LcmSeq([k \in 1..Len(time_bases) |-> time_bases[k].den])]

\* Duration::new taking whole ticks-per-step units of the tick count first.
DurationNewWholeFirst(duration_in_time_base, time_base, step) ==
    (duration_in_time_base \div time_base.den) * step

\* Duration::new: ticks * (step / denominator); the numerator is not read.
DurationNew(duration_in_time_base, time_base, step) ==
    duration_in_time_base * (step \div time_base.den)

\* Duration::modulo: div_mod_floor, which panics on a zero base.
DurationModulo(a, base) ==
    IF base = 0 THEN [panic |-> "modulo by zero"]
    ELSE [panic |-> "", quotient |-> a \div base, remainder |-> a % base]

\* Duration::subtract: u64 subtraction, which underflows when other > self.
DurationSubtract(a, other) ==
    IF other > a THEN [panic |-> "subtract underflow"]
    ELSE [panic |-> "", value |-> a - other]

\* Duration::add
DurationAdd(a, other) == a + other

\* Duration::to_seconds: raw / step. Both are integers below 2^53, so the f64
\* quotient is the correctly rounded value of this fraction, kept in lowest
\* terms here.
ToSeconds(duration, step) ==
    [num |-> duration \div Gcd(duration, step), den |-> step \div Gcd(duration, step)]

\* ------------------------------------------------------ package model
\* VariantKind: Video{width, height} or Audio (width and height 0).
Video(w, h) == [tag |-> "Video", width |-> w, height |-> h]
Audio == [tag |-> "Audio", width |-> 0, height |-> 0]

\* Variant::duration(step): the variant's segments summed on the step clock.
VariantDuration(variant, step) ==
    SumSeq([k \in 1..Len(variant.segments) |->
                DurationNew(variant.segments[k].duration, variant.time_base, step)])

\* RemoteResource::uri(vid): "<vid>/<resource>".
ResourceUri(resource, vid) == [vid |-> vid, resource |-> resource]

\* ------------------------------------------------------ Stream / sources
\* Stream::new_video, Stream::new_audio
StreamNewVideo(width, height, bitrate) ==
    [bitrate |-> bitrate, kind |-> Video(width, height), sources |-> <<>>, segments |-> <<>>]

StreamNewAudio(bitrate) ==
    [bitrate |-> bitrate, kind |-> Audio, sources |-> <<>>, segments |-> <<>>]

\* BTreeMap::insert on a map kept as a set of entries with distinct keys.
MapInsert(map, entry) == {e \in map : e.key # entry.key} \cup {entry}

\* The entry of the least key strictly above from.
MapUpperBound(map, from) ==
    LET above == {e \in map : e.key > from}
    IN  IF above = {} THEN None
        ELSE CHOOSE e \in above : \A f \in above : e.key <= f.key

\* BTreeMap::range(from..).next(): the entry of the least key >= from.
MapLowerBound(map, from) ==
    LET above == {e \in map : e.key >= from}
    IN  IF above = {} THEN None
        ELSE CHOOSE e \in above : \A f \in above : e.key <= f.key

\* The running end offsets of a variant's segments on the step clock.
RECURSIVE RunningDurations(_, _, _)
RunningDurations(variant, step, n) ==
    IF n = 0 THEN 0
    ELSE RunningDurations(variant, step, n - 1)
         + DurationNew(variant.segments[n].duration, variant.time_base, step)

\* The segment_lookup of StreamSource::from_variant: running end offset -> si,
\* a later segment replacing an earlier one that ends at the same offset.
RECURSIVE SegmentLookup(_, _, _)
SegmentLookup(variant, step, n) ==
    IF n = 0 THEN {}
    ELSE MapInsert(SegmentLookup(variant, step, n - 1),
                   [key |-> RunningDurations(variant, step, n), idx |-> n - 1])

StreamSourceFromVariant(vid, variant, start_segment_idx, step) ==
    [vid |-> vid,
     init |-> variant.init_src,
     segment_lookup |-> SegmentLookup(variant, step, Len(variant.segments)),
     segments |-> [start |-> start_segment_idx,
                   end |-> start_segment_idx + Len(variant.segments)]]

\* StreamSegment::new, whose assert_ne! panics on a zero step duration.
StreamSegmentNew(segment, time_base, step) ==
    LET duration == DurationNew(segment.duration, time_base, step)
    IN  IF duration = 0 THEN [panic |-> "zero segment duration"]
        ELSE [panic |-> "", duration |-> duration, src |-> segment.src]

\* ------------------------------------------------------ Playlist::new
NewStreams ==
    << StreamNewVideo(1920, 1080, 5000000),
       StreamNewVideo(1280, 720, 1500000),
       StreamNewVideo(960, 540, 400000),
       StreamNewAudio(192000) >>

TopStreamKind == Video(1920, 1080)

\* streams.iter_mut().find(..): index of the first stream the variant fits, or -1
FindStream(streams, variant) ==
    LET fits == {i \in 0..(Len(streams) - 1) :
                    /\ Nth(streams, i).bitrate >= variant.bitrate
                    /\ Nth(streams, i).kind = variant.kind}
    IN  IF fits = {} THEN -1 ELSE Min(fits)

\* The time bases of all variants of all packages, in iteration order.
RECURSIVE TimeBases(_)
TimeBases(pkgs) ==
    IF pkgs = <<>> THEN <<>>
    ELSE [k \in 1..Len(Head(pkgs).variants) |-> Head(pkgs).variants[k].time_base]
         \o TimeBases(Tail(pkgs))

\* One turn of the inner loop of Playlist::new (one variant of package pi).
AssembleVariant(acc, pi, package, variant, step) ==
    LET si == FindStream(acc.streams, variant)
    IN  IF acc.panic # "" THEN acc
        ELSE IF si = -1 THEN [acc EXCEPT !.panic = "no stream for variant"]
        ELSE
        LET stream == Nth(acc.streams, si)
            top == stream.kind = TopStreamKind
            start_duration == acc.running
            end_duration == acc.running + VariantDuration(variant, step)
            stream_source ==
                StreamSourceFromVariant(package.vid, variant, Len(stream.segments), step)
            stream_segments ==
                [k \in 1..Len(variant.segments) |->
                    StreamSegmentNew(variant.segments[k], variant.time_base, step)]
            bad == \E k \in 1..Len(variant.segments) : stream_segments[k].panic # ""
            new_stream ==
                [stream EXCEPT
                    !.sources = Append(@, stream_source),
                    !.segments = @ \o [k \in 1..Len(variant.segments) |->
                                        [duration |-> stream_segments[k].duration,
                                         src |-> stream_segments[k].src]]]
        IN  IF bad THEN [acc EXCEPT !.panic = "zero segment duration"]
            ELSE [panic |-> "",
                  sources |-> IF top
                              THEN MapInsert(acc.sources,
                                     [key |-> end_duration,
                                      start |-> start_duration,
                                      index |-> pi])
                              ELSE acc.sources,
                  running |-> IF top THEN end_duration ELSE acc.running,
                  items |-> IF top
                            THEN Append(acc.items,
                                   [vid |-> package.vid,
                                    start |-> start_duration,
                                    duration |-> end_duration])
                            ELSE acc.items,
                  streams |-> [acc.streams EXCEPT ![si + 1] = new_stream]]

\* The inner loop: the first n variants of package pi.
RECURSIVE AssembleVariants(_, _, _, _, _)
AssembleVariants(acc, pi, package, n, step) ==
    IF n = 0 THEN acc
    ELSE AssembleVariant(AssembleVariants(acc, pi, package, n - 1, step),
                         pi, package, package.variants[n], step)

\* The outer loop: the first n packages.
RECURSIVE AssemblePackages(_, _, _)
AssemblePackages(pkgs, n, step) ==
    IF n = 0
    THEN [panic |-> "", sources |-> {}, running |-> 0, items |-> <<>>,
          streams |-> NewStreams]
    ELSE AssembleVariants(AssemblePackages(pkgs, n - 1, step), n - 1,
                          pkgs[n], Len(pkgs[n].variants), step)

\* Playlist::new
PlaylistNew(start, pkgs) ==
    LET calculated == StepSizeCalculate(TimeBases(pkgs))
    IN  IF calculated.panic # "" THEN [panic |-> calculated.panic]
        ELSE LET step == calculated.value
                 acc == AssemblePackages(pkgs, Len(pkgs), step)
             IN  IF acc.panic # "" THEN [panic |-> acc.panic]
                 ELSE [panic |-> "",
                       start |-> start,
                       sources |-> acc.sources,
                       step |-> step,
                       streams |-> acc.streams,
                       duration |-> acc.running,
                       items |-> acc.items]

\* ------------------------------------------------------ Playlist::at
\* now.since(start) in whole seconds as u64: the cast saturates below zero.
ElapsedSeconds(start, now) == IF now - start < 0 THEN 0 ELSE now - start

\* The playhead of an elapsed step-clock time (lines 126-138 of Playlist::at).
PlayheadAt(pl, elapsed) ==
    LET m == DurationModulo(elapsed, pl.duration)
    IN  IF m.panic # "" THEN [panic |-> m.panic]
        ELSE
        LET entry == MapLowerBound(pl.sources, m.remainder)
        IN  IF entry = None THEN [panic |-> "empty sources range"]
            ELSE
            LET sub == DurationSubtract(m.remainder, entry.start)
            IN  IF sub.panic # "" THEN [panic |-> sub.panic]
                ELSE [panic |-> "",
                      discontinuity |->
                          (m.quotient * Cardinality(pl.sources)) + entry.index,
                      loop_index |-> m.quotient,
                      source_index |-> entry.index,
                      offset_in_source |-> sub.value]

\* Playlist::at
At(pl, now, config_speed) ==
    PlayheadAt(pl, DurationNew(ElapsedSeconds(pl.start, now) * config_speed, [num |-> 1, den |-> 1],
                               pl.step))

\* ------------------------------------------------------ Stream::queue
\* The start_segment_index taken from the first segment that ends strictly
\* after the offset.
StartSegmentIndexStrictlyAfter(this_source, playhead) ==
    LET found == MapLowerBound(this_source.segment_lookup, playhead.offset_in_source + 1)
    IN  IF found = None THEN Cardinality(this_source.segment_lookup) ELSE found.idx

\* The start_segment_index of Stream::queue and Stream::media_seq.
StartSegmentIndex(this_source, playhead) ==
    LET found == MapLowerBound(this_source.segment_lookup, playhead.offset_in_source)
    IN  IF found = None THEN Cardinality(this_source.segment_lookup) ELSE found.idx

\* The QueueItems of flat segments [from, to) of one source.
SourceItems(stream, source_pos, from, to, discontinuity) ==
    [k \in 1..(to - from) |->
        [discontinuity |-> discontinuity,
         source |-> source_pos,
         segment |-> from + k - 1]]

\* playlist_remainder taken up to `need` items, from the source_i-th successor on:
\* sources.iter().cycle().skip(source_index + 1).enumerate().flat_map(..)
RECURSIVE PlaylistRemainder(_, _, _, _)
PlaylistRemainder(stream, playhead, source_i, need) ==
    LET pos == (playhead.source_index + 1 + source_i) % Len(stream.sources)
        source == Nth(stream.sources, pos)
        items == SourceItems(stream, pos, source.segments.start, source.segments.end,
                             playhead.discontinuity + source_i + 1)
    IN  IF need <= 0 THEN <<>>
        ELSE IF Len(items) >= need THEN SubSeq(items, 1, need)
        ELSE items \o PlaylistRemainder(stream, playhead, source_i + 1, need - Len(items))

\* Stream::queue(playhead).take(n); a QueueItem names its source and segment by
\* their positions in stream.sources and stream.segments.
QueueTake(stream, playhead, n) ==
    IF ~InRange(stream.sources, playhead.source_index)
    THEN [panic |-> "source index out of range"]
    ELSE
    LET this_source == Nth(stream.sources, playhead.source_index)
        start_segment_index == StartSegmentIndex(this_source, playhead)
        from == this_source.segments.start + start_segment_index
    IN  IF from > this_source.segments.end
        THEN [panic |-> "slice index out of range"]
        ELSE
        LET first_source_segments ==
                SourceItems(stream, playhead.source_index, from,
                            this_source.segments.end, playhead.discontinuity)
        IN  [panic |-> "",
             items |-> IF Len(first_source_segments) >= n
                       THEN SubSeq(first_source_segments, 1, n)
                       ELSE first_source_segments
                            \o PlaylistRemainder(stream, playhead, 0,
                                                 n - Len(first_source_segments))]

\* Stream::media_seq without the completed loops: the segment's index within
\* one pass of the library.
MediaSeqWithinLoop(stream, playhead) ==
    IF ~InRange(stream.sources, playhead.source_index)
    THEN [panic |-> "source index out of range"]
    ELSE
    LET this_source == Nth(stream.sources, playhead.source_index)
        start_segment_index == StartSegmentIndex(this_source, playhead)
    IN  [panic |-> "",
         value |-> this_source.segments.start + start_segment_index]

\* Stream::media_seq
MediaSeq(stream, playhead) ==
    IF ~InRange(stream.sources, playhead.source_index)
    THEN [panic |-> "source index out of range"]
    ELSE
    LET this_source == Nth(stream.sources, playhead.source_index)
        start_segment_index == StartSegmentIndex(this_source, playhead)
    IN  [panic |-> "",
         value |-> (playhead.loop_index * Len(stream.segments))
                   + this_source.segments.start
                   + start_segment_index]

\* ------------------------------------------- Stream::render_variant_playlist
\* Duration::to_seconds printed with {:.6}: microseconds, rounded to nearest.
ToSecondsMicros(duration, step) == (2 * duration * 1000000 + step) \div (2 * step)

\* The lines of one item when the init section is written for the first item
\* only.
ItemLinesMapOnce(stream, pl, this, i, current_discontinuity, mapped_vid) ==
    LET source == Nth(stream.sources, this.source)
        segment == Nth(stream.segments, this.segment)
        tags == [k \in 1..(this.discontinuity - current_discontinuity) |->
                    [tag |-> "EXT-X-DISCONTINUITY"]]
        map == IF i = 0
               THEN << [tag |-> "EXT-X-MAP", uri |-> ResourceUri(source.init, source.vid)] >>
               ELSE <<>>
    IN  tags \o map \o
        << [tag |-> "EXTINF", micros |-> ToSecondsMicros(segment.duration, pl.step)],
           [tag |-> "URI", uri |-> ResourceUri(segment.src, source.vid)] >>

\* The lines of one item when discontinuity tags are written between items
\* only, never before the first.
ItemLinesNoLeadingTag(stream, pl, this, i, current_discontinuity, mapped_vid) ==
    LET source == Nth(stream.sources, this.source)
        segment == Nth(stream.segments, this.segment)
        tags == IF i = 0 THEN <<>>
                ELSE [k \in 1..(this.discontinuity - current_discontinuity) |->
                         [tag |-> "EXT-X-DISCONTINUITY"]]
        map == IF i = 0 \/ mapped_vid # source.vid
               THEN << [tag |-> "EXT-X-MAP", uri |-> ResourceUri(source.init, source.vid)] >>
               ELSE <<>>
    IN  tags \o map \o
        << [tag |-> "EXTINF", micros |-> ToSecondsMicros(segment.duration, pl.step)],
           [tag |-> "URI", uri |-> ResourceUri(segment.src, source.vid)] >>

\* The lines of one item with a discontinuity tag only where the vid changes.
ItemLinesTagOnVidChange(stream, pl, this, i, current_discontinuity, mapped_vid) ==
    LET source == Nth(stream.sources, this.source)
        segment == Nth(stream.segments, this.segment)
        tags == IF i > 0 /\ mapped_vid # source.vid
                THEN << [tag |-> "EXT-X-DISCONTINUITY"] >>
                ELSE <<>>
        map == IF i = 0 \/ mapped_vid # source.vid
               THEN << [tag |-> "EXT-X-MAP", uri |-> ResourceUri(source.init, source.vid)] >>
               ELSE <<>>
    IN  tags \o map \o
        << [tag |-> "EXTINF", micros |-> ToSecondsMicros(segment.duration, pl.step)],
           [tag |-> "URI", uri |-> ResourceUri(segment.src, source.vid)] >>

\* The lines one turn of the rendering loop writes for item `this` (turn i).
ItemLines(stream, pl, this, i, current_discontinuity, mapped_vid) ==
    LET source == Nth(stream.sources, this.source)
        segment == Nth(stream.segments, this.segment)
        tags == [k \in 1..(this.discontinuity - current_discontinuity) |->
                    [tag |-> "EXT-X-DISCONTINUITY"]]
        map == IF i = 0 \/ mapped_vid # source.vid
               THEN << [tag |-> "EXT-X-MAP", uri |-> ResourceUri(source.init, source.vid)] >>
               ELSE <<>>
    IN  tags \o map \o
        << [tag |-> "EXTINF", micros |-> ToSecondsMicros(segment.duration, pl.step)],
           [tag |-> "URI", uri |-> ResourceUri(segment.src, source.vid)] >>

\* The rendering loop from turn i on; mapped_vid is -1 for None.
RECURSIVE RenderItems(_, _, _, _, _, _)
RenderItems(stream, pl, items, i, current_discontinuity, mapped_vid) ==
    IF i >= Len(items) THEN <<>>
    ELSE LET this == Nth(items, i)
         IN  ItemLines(stream, pl, this, i, current_discontinuity, mapped_vid)
             \o RenderItems(stream, pl, items, i + 1, this.discontinuity,
                            Nth(stream.sources, this.source).vid)

\* Stream::render_variant_playlist after `playlist.at(now)`: the header values,
\* the lines of the body and the queue prefix (window) they were written from;
\* or the panic that ends the request.
RenderFrom(stream, pl, playhead) ==
    IF playhead.panic # "" THEN [panic |-> playhead.panic]
    ELSE
    LET media_seq == MediaSeq(stream, playhead)
        queue == QueueTake(stream, playhead, LOOKAHEAD)
    IN  IF media_seq.panic # "" THEN [panic |-> media_seq.panic]
        ELSE IF queue.panic # "" THEN [panic |-> queue.panic]
        ELSE [panic |-> "",
              loop |-> playhead.loop_index,
              source |-> playhead.source_index,
              version |-> 7,
              targetduration |-> TARGETDURATION,
              media_sequence |-> media_seq.value,
              discontinuity_sequence |-> playhead.discontinuity,
              window |-> queue.items,
              lines |-> RenderItems(stream, pl, queue.items, 0,
                                    playhead.discontinuity, -1)]

\* Stream::render_variant_playlist
RenderVariantPlaylist(stream, pl, now, config_speed) ==
    RenderFrom(stream, pl, At(pl, now, config_speed))

\* ------------------------------------------------------ libraries
\* Manifests as the packager writes them: every variant of a package carries
\* its own init resource and segment resources (content hashes, here the
\* place they were cut from), video at time base 1/1 and audio at 1/2.
VideoTimeBase == [num |-> 1, den |-> 1]
AudioTimeBase == [num |-> 1, den |-> 2]

\* The variant layouts a package manifest may list, each entry <<kind, bitrate>>.
FullLayout ==
    << <<Video(1920, 1080), 5000000>>, <<Video(1280, 720), 1500000>>,
       <<Video(960, 540), 400000>>, <<Audio, 192000>> >>
No540Layout ==
    << <<Video(1920, 1080), 5000000>>, <<Video(1280, 720), 1500000>>,
       <<Audio, 192000>> >>
TwoTopLayout ==
    << <<Video(1920, 1080), 5000000>>, <<Video(1920, 1080), 3000000>>,
       <<Video(1280, 720), 1500000>>, <<Video(960, 540), 400000>>,
       <<Audio, 128000>> >>
AudioOnlyLayout == << <<Audio, 192000>> >>
OversizeLayout ==
    << <<Video(1920, 1080), 8000000>>, <<Video(1280, 720), 1500000>>,
       <<Video(960, 540), 400000>>, <<Audio, 192000>> >>

\* Segment durations of a package's video variants, in seconds (= ticks at 1/1):
\* a source of two unequal segments, and one of a single segment longer than
\* TARGETDURATION.
ShortSegments == <<1, 2>>
LongSegment == <<11>>

\* What a package manifest may hold: <<layout, video ticks, audio shortfall>>.
PackageShapes ==
    ({FullLayout} \X {ShortSegments, LongSegment} \X {0, 1})
    \cup ({No540Layout, TwoTopLayout, AudioOnlyLayout, OversizeLayout}
          \X {ShortSegments} \X {0})

\* The audio variant of a package: two ticks per video second, the last
\* segment `short` ticks less (audio rarely ends exactly with the video).
AudioTicks(vticks, short) ==
    [k \in 1..Len(vticks) |-> 2 * vticks[k] - (IF k = Len(vticks) THEN short ELSE 0)]

MakeSegments(vid, vi, ticks) ==
    [k \in 1..Len(ticks) |->
        [src |-> <<"seg", vid, vi, k - 1>>,
         start |-> SumSeq(SubSeq(ticks, 1, k - 1)),
         duration |-> ticks[k]]]

MakeVariant(vid, vi, kind, bitrate, vticks, short) ==
    [init_src |-> <<"init", vid, vi>>,
     time_base |-> IF kind = Audio THEN AudioTimeBase ELSE VideoTimeBase,
     bitrate |-> bitrate,
     kind |-> kind,
     segments |-> MakeSegments(vid, vi,
                     IF kind = Audio THEN AudioTicks(vticks, short) ELSE vticks)]

MakePackage(vid, layout, vticks, short) ==
    [vid |-> vid,
     variants |-> [vi \in 1..Len(layout) |->
                     MakeVariant(vid, vi - 1, layout[vi][1], layout[vi][2], vticks, short)]]

PackagesWithVid(vid) ==
    {MakePackage(vid, shape[1], shape[2], shape[3]) : shape \in PackageShapes}

\* Libraries of 1..MaxPackages packages, package pi with vid 100 * (pi + 1).
RECURSIVE LibrariesOfLen(_)
LibrariesOfLen(n) ==
    IF n = 0 THEN { <<>> }
    ELSE {Append(lib, p) : lib \in LibrariesOfLen(n - 1), p \in PackagesWithVid(100 * n)}

Libraries == UNION {LibrariesOfLen(n) : n \in 1..MaxPackages}

Speeds == {1, 2}

\* ------------------------------------------------------ the server
\* The runtime's worker threads that may each be inside a handler.
Workers == {"w1", "w2"}

\* A worker that is in no handler.
Idle == [stage |-> "idle"]

Init ==
    /\ phase = "startup"
    /\ packages \in Libraries
    /\ speed \in Speeds
    /\ playlist = None
    /\ clock = 0
    /\ response = None
    /\ restarts = 0
    /\ index = None
    /\ inflight = [w \in Workers |-> Idle]
    /\ directory = <<>>
    /\ term_bases = <<>>
    /\ term_ticks = <<>>
    /\ summed = {}
    /\ running = 0

\* main: Playlist::load -> Playlist::new, then AppState::new; a panic of
\* Playlist::new ends the process before it listens.
Load ==
    /\ phase = "startup"
    /\ LET pl == PlaylistNew(clock, packages)
       IN  IF pl.panic # ""
           THEN /\ phase' = "crashed"
                /\ playlist' = playlist
           ELSE /\ phase' = "serving"
                /\ playlist' = pl
    /\ UNCHANGED <<packages, speed, clock, response>>
    /\ UNCHANGED <<opsVars, inflight, directory, durationVars>>

\* Timestamp::now() advances between requests.
Tick ==
    /\ phase = "serving"
    /\ clock < MaxNow
    /\ clock' = clock + 1
    /\ UNCHANGED <<phase, packages, speed, playlist, response>>
    /\ UNCHANGED <<opsVars, inflight, directory, durationVars>>

\* hls_variant_playlist for "variant<v>.m3u8", v in 0..3
HlsVariantPlaylist(v) ==
    /\ phase = "serving"
    /\ response' = [stream |-> v,
                    process |-> restarts,
                    now |-> clock,
                    out |-> RenderVariantPlaylist(Nth(playlist.streams, v), playlist,
                                                  clock, speed)]
    /\ UNCHANGED <<phase, packages, speed, playlist, clock>>
    /\ UNCHANGED <<opsVars, inflight, directory, durationVars>>

Next ==
    \/ Load
    \/ Tick
    \/ \E v \in 0..(N_STREAMS - 1) : HlsVariantPlaylist(v)

Spec == Init /\ [][Next]_vars

\* ====================================================== properties
\* A request that was answered with a playlist (the handler did not panic).
Rendered(r) == r # None /\ r.out.panic = ""

\* The stream a response was rendered from.
StreamOf(r) == Nth(playlist.streams, r.stream)

\* The elapsed step-clock time Playlist::at derives for a response.
ElapsedOf(r) ==
    DurationNew(ElapsedSeconds(playlist.start, r.now) * speed, [num |-> 1, den |-> 1], playlist.step)

\* Every package lists exactly one variant for each of the four streams.
OneVariantPerStream(pkgs) ==
    \A p \in 1..Len(pkgs) :
        /\ Len(pkgs[p].variants) = N_STREAMS
        /\ \A i \in 0..(N_STREAMS - 1) :
              \E v \in 1..Len(pkgs[p].variants) :
                  /\ pkgs[p].variants[v].kind = Nth(NewStreams, i).kind
                  /\ pkgs[p].variants[v].bitrate <= Nth(NewStreams, i).bitrate

\* C1: between two successive answers for the same stream, the later request
\* not earlier than the first, neither EXT-X-MEDIA-SEQUENCE nor
\* EXT-X-DISCONTINUITY-SEQUENCE decreases.
C1_SequencesNeverDecrease ==
    [][ (/\ Rendered(response) /\ Rendered(response')
         /\ response'.stream = response.stream
         /\ response.now <= response'.now)
        => /\ response.out.media_sequence <= response'.out.media_sequence
           /\ response.out.discontinuity_sequence
                <= response'.out.discontinuity_sequence ]_vars

\* C1 restricted to libraries with exactly one variant per stream and package.
C1_OnOneVariantPerStream ==
    [][ (/\ OneVariantPerStream(packages)
         /\ Rendered(response) /\ Rendered(response')
         /\ response'.stream = response.stream
         /\ response.now <= response'.now)
        => /\ response.out.media_sequence <= response'.out.media_sequence
           /\ response.out.discontinuity_sequence
                <= response'.out.discontinuity_sequence ]_vars

\* The segments (not their discontinuity numbers) a window lists.
WindowSegments(out) ==
    [k \in 1..Len(out.window) |->
        [source |-> out.window[k].source, segment |-> out.window[k].segment]]

\* C2: one playlist.duration after the elapsed time e of an answer, the playhead
\* has the same source_index and offset_in_source and a loop_index one greater;
\* the media sequence is larger by |stream.segments|, the discontinuity sequence
\* by |sources|, and the window lists the same segments.
C2_OneLoopLater ==
    Rendered(response) =>
        LET e == ElapsedOf(response)
            stream == StreamOf(response)
            ph1 == PlayheadAt(playlist, e)
            ph2 == PlayheadAt(playlist, e + playlist.duration)
            later == RenderFrom(stream, playlist, ph2)
        IN  /\ ph2.panic = ""
            /\ ph2.source_index = ph1.source_index
            /\ ph2.offset_in_source = ph1.offset_in_source
            /\ ph2.loop_index = ph1.loop_index + 1
            /\ later.panic = ""
            /\ later.media_sequence
                 = response.out.media_sequence + Len(stream.segments)
            /\ later.discontinuity_sequence
                 = response.out.discontinuity_sequence + Cardinality(playlist.sources)
            /\ WindowSegments(later) = WindowSegments(response.out)
            /\ later.lines = response.out.lines

\* C2 witness: an answer in the second loop, mid-source, of a stream with two
\* sources, i.e. itself one loop later than an answer of the first loop.
C2_Witness ==
    /\ OneVariantPerStream(packages)
    /\ Rendered(response)
    /\ response.out.loop = 1
    /\ response.out.source = 1
    /\ Len(StreamOf(response).sources) = 2
    /\ PlayheadAt(playlist, ElapsedOf(response)).offset_in_source > 0

\* ------------------------------------------------------ reading a playlist
\* The positions of the lines with a given tag, in order.
LinesTagged(lines, tag) == {k \in 1..Len(lines) : lines[k].tag = tag}

CountTagged(lines, tag) == Cardinality(LinesTagged(lines, tag))

\* The k-th (from 0) segment URI line of a playlist body.
UriLine(lines, k) ==
    LET uris == LinesTagged(lines, "URI")
    IN  CHOOSE p \in uris : Cardinality({q \in uris : q < p}) = k

\* The absolutely numbered items of an answer: MEDIA-SEQUENCE + position.
NumberedItems(out) ==
    {[number |-> out.media_sequence + i,
      segment |-> Nth(out.window, i).segment,
      discontinuity |-> Nth(out.window, i).discontinuity] :
        i \in 0..(Len(out.window) - 1)}

\* C3: the i-th segment of every window is flat segment
\* (media_sequence + i) mod |stream.segments|; two successive answers for a
\* stream give a shared absolute number the same segment and the same
\* discontinuity number; and the first segment of a next loop follows the last
\* segment of the loop before with a discontinuity number one greater.
C3_ConsistentNumbering ==
    [][ Rendered(response') =>
        LET out == response'.out
            stream == StreamOf(response')
            n == Len(stream.segments)
        IN  /\ \A i \in 0..(Len(out.window) - 1) :
                  /\ Nth(out.window, i).segment = (out.media_sequence + i) % n
                  /\ out.lines[UriLine(out.lines, i)].uri.resource
                       = Nth(stream.segments, (out.media_sequence + i) % n).src
            /\ \A i \in 1..(Len(out.window) - 1) :
                  (out.media_sequence + i) % n = 0 =>
                      Nth(out.window, i).discontinuity
                        = Nth(out.window, i - 1).discontinuity + 1
            /\ (Rendered(response) /\ response.stream = response'.stream) =>
                  \A a \in NumberedItems(response.out), b \in NumberedItems(out) :
                      a.number = b.number =>
                          /\ a.segment = b.segment
                          /\ a.discontinuity = b.discontinuity ]_vars

\* C3 restricted to libraries with exactly one variant per stream and package.
C3_OnOneVariantPerStream ==
    [][ (OneVariantPerStream(packages) /\ Rendered(response')) =>
        LET out == response'.out
            stream == StreamOf(response')
            n == Len(stream.segments)
        IN  /\ \A i \in 0..(Len(out.window) - 1) :
                  Nth(out.window, i).segment = (out.media_sequence + i) % n
            /\ (Rendered(response) /\ response.stream = response'.stream) =>
                  \A a \in NumberedItems(response.out), b \in NumberedItems(out) :
                      a.number = b.number =>
                          /\ a.segment = b.segment
                          /\ a.discontinuity = b.discontinuity ]_vars

\* C4: for every segment URI of a rendered playlist, the last EXT-X-MAP before
\* it exists and carries the vid of the segment's URI.
C4_MapInScopeMatchesVid ==
    Rendered(response) =>
        LET lines == response.out.lines
        IN  \A k \in LinesTagged(lines, "URI") :
                LET maps == {m \in LinesTagged(lines, "EXT-X-MAP") : m < k}
                IN  /\ maps # {}
                    /\ lines[Max(maps)].uri.vid = lines[k].uri.vid

\* C4 witness: a window that crosses a source boundary between two vids and
\* the loop boundary back to the first.
C4_Witness ==
    /\ OneVariantPerStream(packages)
    /\ Rendered(response)
    /\ LET lines == response.out.lines
           maps == LinesTagged(lines, "EXT-X-MAP")
       IN  /\ \E m1, m2, m3 \in maps :
                 /\ m1 < m2 /\ m2 < m3
                 /\ lines[m1].uri.vid # lines[m2].uri.vid
                 /\ lines[m3].uri.vid = lines[m1].uri.vid
           /\ CountTagged(lines, "URI") = LOOKAHEAD

\* The EXT-X-DISCONTINUITY tags written before the first segment.
LeadingDiscontinuities(lines) ==
    Cardinality({k \in LinesTagged(lines, "EXT-X-DISCONTINUITY") :
                    k < UriLine(lines, 0)})

TransitionsBeforeWindow(stream, out) ==
    (out.media_sequence \div Len(stream.segments)) * Len(stream.sources)
    + Nth(out.window, 0).source

\* C6: the rendered EXT-X-DISCONTINUITY-SEQUENCE is the number of
\* source-to-source transitions before the first segment of the window, and
\* that is loop_index * |sources| + source_index.
C6_SequenceCountsScrolledOut ==
    Rendered(response) =>
        LET out == response.out
        IN  /\ out.discontinuity_sequence
                 = TransitionsBeforeWindow(StreamOf(response), out)
            /\ out.discontinuity_sequence
                 = out.loop * Cardinality(playlist.sources) + out.source

\* C7: every request served after startup is answered with a playlist of
\* exactly LOOKAHEAD segments.
C7_AlwaysLookaheadSegments ==
    response # None =>
        /\ response.out.panic = ""
        /\ CountTagged(response.out.lines, "URI") = LOOKAHEAD
        /\ CountTagged(response.out.lines, "EXTINF") = LOOKAHEAD

\* The EXTINF durations of a playlist body, in microseconds.
RECURSIVE SumMicros(_, _)
SumMicros(lines, n) ==
    IF n = 0 THEN 0
    ELSE SumMicros(lines, n - 1)
         + (IF lines[n].tag = "EXTINF" THEN lines[n].micros ELSE 0)

MinSegmentMicros(stream, step) ==
    Min({ToSecondsMicros(stream.segments[k].duration, step) :
            k \in 1..Len(stream.segments)})

\* C8: the EXTINF durations of a window sum to at most
\* LOOKAHEAD x TARGETDURATION seconds and to at least
\* (LOOKAHEAD - 1) x the shortest segment duration of the stream.
C8_WindowDurationBounds ==
    Rendered(response) =>
        LET total == SumMicros(response.out.lines, Len(response.out.lines))
        IN  /\ total <= LOOKAHEAD * TARGETDURATION * 1000000
            /\ total >= (LOOKAHEAD - 1)
                          * MinSegmentMicros(StreamOf(response), playlist.step)

\* Some package has no variant of the kind of one of the four streams.
LacksVariant(pkgs) ==
    \E p \in 1..Len(pkgs), i \in 0..(N_STREAMS - 1) :
        \A v \in 1..Len(pkgs[p].variants) :
            pkgs[p].variants[v].kind # Nth(NewStreams, i).kind

\* C9: a library in which some package lacks a variant for one of the four
\* streams never gets past startup, so no request is ever made to it.
C9_MissingVariantRejectedAtStartup ==
    LacksVariant(packages) => (phase # "serving" /\ response = None)

\* C10: no request to a library Playlist::new accepted ends in a subtraction
\* underflow, a modulo by a zero duration, an empty sources range or an
\* out-of-range source index.
C10_NoArithmeticOrIndexPanic ==
    response # None =>
        response.out.panic \notin
            {"subtract underflow", "modulo by zero", "empty sources range",
             "source index out of range"}

\* ====================================================== wall clock and restarts
\* How often the server process is started again.
MaxRestarts == 1

\* Playlist::master_playlist: one entry per stream, from its kind and bitrate.
MasterPlaylist(pl) ==
    << [tag |-> "EXTM3U"], [tag |-> "EXT-X-INDEPENDENT-SEGMENTS"] >> \o
    [k \in 1..Len(pl.streams) |->
        IF pl.streams[k].kind.tag = "Video"
        THEN [tag |-> "EXT-X-STREAM-INF",
              bandwidth |-> pl.streams[k].bitrate,
              width |-> pl.streams[k].kind.width,
              height |-> pl.streams[k].kind.height,
              uri |-> <<"variant", k - 1>>]
        ELSE [tag |-> "EXT-X-MEDIA", uri |-> <<"variant", k - 1>>]]

\* The libraries the restarted server is run on: every one-package library.
RestartLibraries == LibrariesOfLen(1)

InitRestart ==
    /\ phase = "startup"
    /\ packages \in RestartLibraries
    /\ speed \in Speeds
    /\ playlist = None
    /\ clock = 0
    /\ response = None
    /\ restarts = 0
    /\ index = None
    /\ inflight = [w \in Workers |-> Idle]
    /\ directory = <<>>
    /\ term_bases = <<>>
    /\ term_ticks = <<>>
    /\ summed = {}
    /\ running = 0

\* Timestamp::now() is the system's wall clock: it can be set back.
Regress ==
    /\ phase = "serving"
    /\ clock > 0
    /\ clock' = clock - 1
    /\ UNCHANGED <<phase, packages, speed, playlist, response>>
    /\ UNCHANGED <<opsVars, inflight, directory, durationVars>>

\* The process ends and main runs again on the same library: the leaked
\* Playlist is gone, what clients were served before stays served.
Restart ==
    /\ phase \in {"serving", "crashed"}
    /\ restarts < MaxRestarts
    /\ restarts' = restarts + 1
    /\ phase' = "startup"
    /\ playlist' = None
    /\ UNCHANGED <<packages, speed, clock, response, index>>
    /\ UNCHANGED <<inflight, directory, durationVars>>

\* hls_index_playlist
HlsIndexPlaylist ==
    /\ phase = "serving"
    /\ index' = [lines |-> MasterPlaylist(playlist)]
    /\ UNCHANGED <<serverVars, restarts, inflight, directory, durationVars>>

NextRestart ==
    \/ Load
    \/ Tick
    \/ Regress
    \/ Restart
    \/ HlsIndexPlaylist
    \/ \E v \in 0..(N_STREAMS - 1) : HlsVariantPlaylist(v)

\* The server under a wall clock that may step back and a process that may be
\* started again; each start of main is a server process of its own.
SpecRestart == InitRestart /\ [][NextRestart]_vars

\* The last answer came from the running process, for a request stamped
\* before that process's playlist.start.
AnsweredBeforeStart ==
    /\ phase = "serving"
    /\ response # None
    /\ response.process = restarts
    /\ response.now < playlist.start

\* C11: a request stamped before playlist.start is answered, and answered
\* exactly as a request at playlist.start: loop 0, source 0, offset 0, media
\* sequence 0, discontinuity sequence 0.
C11_BeforeStartAsAtStart ==
    AnsweredBeforeStart =>
        /\ response.out.panic = ""
        /\ response.out
             = RenderVariantPlaylist(StreamOf(response), playlist, playlist.start, speed)
        /\ response.out.loop = 0
        /\ response.out.source = 0
        /\ At(playlist, response.now, speed).offset_in_source = 0
        /\ response.out.media_sequence = 0
        /\ response.out.discontinuity_sequence = 0

\* C11, the clamp alone: a request stamped before playlist.start gets the
\* answer of a request at playlist.start, whatever that answer is.
C11_ClampedToStart ==
    AnsweredBeforeStart =>
        response.out
          = RenderVariantPlaylist(StreamOf(response), playlist, playlist.start, speed)

\* C12: when a process answers a request for a stream with an earlier now than
\* its previous request for that stream, EXT-X-MEDIA-SEQUENCE is not lower
\* than in the previous answer.
C12_RegressNeverLowersMediaSequence ==
    [][ (/\ Rendered(response) /\ Rendered(response')
         /\ response'.stream = response.stream
         /\ response'.process = response.process
         /\ response'.now < response.now)
        => response'.out.media_sequence >= response.out.media_sequence ]_vars

\* C13: an answer given after a restart, at a wall-clock time not earlier than
\* an answer for the same stream given before the restart, has neither a lower
\* EXT-X-MEDIA-SEQUENCE nor a lower EXT-X-DISCONTINUITY-SEQUENCE.
C13_MonotoneAcrossRestart ==
    [][ (/\ Rendered(response) /\ Rendered(response')
         /\ response'.stream = response.stream
         /\ response.process < response'.process
         /\ response.now <= response'.now)
        => /\ response.out.media_sequence <= response'.out.media_sequence
           /\ response.out.discontinuity_sequence
                <= response'.out.discontinuity_sequence ]_vars

\* C14: two server processes started on the same library answer the same
\* request time for a stream with the same variant playlist, and serve the
\* same master playlist.
C14_ProcessesAnswerAlike ==
    [][ /\ (/\ response # None /\ response' # None
            /\ response'.stream = response.stream
            /\ response'.process # response.process
            /\ response'.now = response.now)
           => response'.out = response.out
        /\ (index # None /\ index' # None) => index'.lines = index.lines ]_vars

\* ====================================================== concurrent requests
\* How far the wall clock runs while requests overlap.
MaxRequestNow == 1

\* The route of hls_index_playlist among the stream routes 0..3.
IndexRoute == 0 - 1

Routes == {IndexRoute} \cup (0..(N_STREAMS - 1))

\* The libraries the concurrent server is run on: every one-package library.
RequestLibraries == LibrariesOfLen(1)

InitRequests ==
    /\ phase = "startup"
    /\ packages \in RequestLibraries
    /\ speed \in Speeds
    /\ playlist = None
    /\ clock = 0
    /\ response = None
    /\ restarts = 0
    /\ index = None
    /\ inflight = [w \in Workers |-> Idle]
    /\ directory = <<>>
    /\ term_bases = <<>>
    /\ term_ticks = <<>>
    /\ summed = {}
    /\ running = 0

\* Timestamp::now() advances while handlers run.
TickDuringRequests ==
    /\ phase = "serving"
    /\ clock < MaxRequestNow
    /\ clock' = clock + 1
    /\ UNCHANGED <<phase, packages, speed, playlist, response>>
    /\ UNCHANGED <<opsVars, inflight, directory, durationVars>>

\* A worker enters a handler: the route selects the stream, the buffer is
\* created empty and Timestamp::now() is read for the call.
Enter(w, route) ==
    /\ phase = "serving"
    /\ inflight[w].stage \in {"idle", "done"}
    /\ inflight' = [inflight EXCEPT ![w] =
                       [stage |-> "entered", route |-> route, now |-> clock,
                        out |-> None]]
    /\ UNCHANGED <<serverVars, opsVars, directory, durationVars>>

\* What a handler's rendering leaves in the shared Playlist: both
\* render_variant_playlist and master_playlist take it by shared reference
\* (&self, &Playlist) and write to the handler's own buffer only.
SharedAfterRenderWritten(pl) == [pl EXCEPT !.duration = pl.duration + 1]

SharedAfterRender(pl) == pl

\* The text a handler produces for (playlist, route, now).
Answer(pl, route, now, config_speed) ==
    IF route = IndexRoute
    THEN [panic |-> "", lines |-> MasterPlaylist(pl)]
    ELSE RenderVariantPlaylist(Nth(pl.streams, route), pl, now, config_speed)

\* The worker renders into its buffer from the shared Playlist and answers.
Render(w) ==
    /\ phase = "serving"
    /\ inflight[w].stage = "entered"
    /\ inflight' = [inflight EXCEPT ![w] =
                       [stage |-> "done", route |-> inflight[w].route,
                        now |-> inflight[w].now,
                        out |-> Answer(playlist, inflight[w].route,
                                       inflight[w].now, speed)]]
    /\ playlist' = SharedAfterRender(playlist)
    /\ UNCHANGED <<phase, packages, speed, clock, response>>
    /\ UNCHANGED <<opsVars, directory, durationVars>>

NextRequests ==
    \/ Load
    \/ TickDuringRequests
    \/ \E w \in Workers, route \in Routes : Enter(w, route)
    \/ \E w \in Workers : Render(w)

\* The server with two worker threads inside handlers at the same time.
SpecRequests == InitRequests /\ [][NextRequests]_vars

MaxTerms == 3

Ratio(n, d) == [num |-> n, den |-> d]

\* The durations that are added: <<raw ticks, time base>>.
DurationTerms ==
    { <<24, Ratio(1, 24)>>, <<6, Ratio(1, 24)>>, <<12, Ratio(1, 24)>>,
      <<36, Ratio(1, 48)>>, <<25, Ratio(1, 25)>>, <<50, Ratio(1, 50)>>,
      <<100, Ratio(1, 100)>>, <<30, Ratio(1001, 30000)>> }

RECURSIVE TermLists(_)
TermLists(n) ==
    IF n = 0 THEN { <<>> }
    ELSE {Append(l, t) : l \in TermLists(n - 1), t \in DurationTerms}

InitDuration ==
    /\ \E n \in 2..MaxTerms : \E l \in TermLists(n) :
          /\ term_ticks = [k \in 1..n |-> l[k][1]]
          /\ term_bases = [k \in 1..n |-> l[k][2]]
    /\ summed = {}
    /\ running = 0
    /\ phase = "startup"
    /\ packages = <<>>
    /\ speed = 1
    /\ playlist = None
    /\ clock = 0
    /\ response = None
    /\ restarts = 0
    /\ index = None
    /\ inflight = [w \in Workers |-> Idle]
    /\ directory = <<>>

\* The step size of the durations at hand.
TermStep == StepSizeCalculate(term_bases).value

\* One more duration is converted by Duration::new and added to the sum, the
\* durations taken in any order.
AddDuration(i) ==
    /\ i \in (1..Len(term_ticks)) \ summed
    /\ running' = DurationAdd(running,
                              DurationNew(term_ticks[i], term_bases[i], TermStep))
    /\ summed' = summed \cup {i}
    /\ UNCHANGED <<term_bases, term_ticks>>
    /\ UNCHANGED <<serverVars, opsVars, inflight, directory>>

NextDuration == \E i \in 1..MaxTerms : AddDuration(i)

SpecDuration == InitDuration /\ [][NextDuration]_vars

\* Exact fractions of a second, in lowest terms.
SecondsAdd(a, b) ==
    LET den == (a.den * b.den) \div Gcd(a.den, b.den)
        num == a.num * (den \div a.den) + b.num * (den \div b.den)
    IN  [num |-> num \div Gcd(num, den), den |-> den \div Gcd(num, den)]

\* n ticks of num/den seconds each, as an exact fraction of a second.
TickSeconds(n, time_base) ==
    LET num == n * time_base.num
    IN  [num |-> num \div Gcd(num, time_base.den),
         den |-> time_base.den \div Gcd(num, time_base.den)]

\* The exact sum, in seconds, of the durations 1..n that have been added.
RECURSIVE SummedSeconds(_)
SummedSeconds(n) ==
    IF n = 0 THEN [num |-> 0, den |-> 1]
    ELSE IF n \in summed
         THEN SecondsAdd(SummedSeconds(n - 1), TickSeconds(term_ticks[n], term_bases[n]))
         ELSE SummedSeconds(n - 1)

\* C16: when every time base is 1/d, the durations added so far, in whatever
\* order they were added, convert to exactly the sum of their n/d seconds.
C16_SumIsExact ==
    (\A k \in 1..Len(term_bases) : term_bases[k].num = 1) =>
        ToSeconds(running, TermStep) = SummedSeconds(Len(term_ticks))

\* C16 witness: 6/24 + 12/24 + 36/48 added up to 1.5 s on the step clock of
\* lcm(24, 24, 48).
C16_Witness ==
    /\ term_ticks = <<6, 12, 36>>
    /\ term_bases = << Ratio(1, 24), Ratio(1, 24), Ratio(1, 48) >>
    /\ summed = {1, 2, 3}
    /\ TermStep = 48
    /\ ToSeconds(running, TermStep) = Ratio(3, 2)

\* C17: n ticks of a time base num/den are n x num/den seconds on the step
\* clock also when num is not 1; a 24-tick segment at 1/24 and a 30-tick
\* segment at 1001/30000 total 2.001 s.
C17_NumeratorCounts ==
    /\ ToSeconds(running, TermStep) = SummedSeconds(Len(term_ticks))
    /\ (/\ term_ticks = <<24, 30>>
        /\ term_bases = << Ratio(1, 24), Ratio(1001, 30000) >>
        /\ summed = {1, 2})
       => ToSeconds(running, TermStep) = Ratio(2001, 1000)

\* ====================================================== Playlist::load
\* How many entries the packages directory holds.
MaxEntries == 3

\* File names are sequences of characters.
NameA == << "a", ".", "j", "s", "o", "n" >>
NameB == << "b", ".", "j", "s", "o", "n" >>
NameDisabled == << "_", "b", ".", "j", "s", "o", "n" >>
NameText == << "c", ".", "t", "x", "t" >>
NameDotOnly == << ".", "j", "s", "o", "n" >>
NameUpper == << "d", ".", "J", "S", "O", "N" >>

\* The entries a packages directory may hold: a file name and the manifest in
\* the file, each manifest with a vid of its own.
DirectoryEntries ==
    { [name |-> NameA, package |-> MakePackage(100, FullLayout, ShortSegments, 0)],
      [name |-> NameB, package |-> MakePackage(200, FullLayout, ShortSegments, 0)],
      [name |-> NameDisabled, package |-> MakePackage(300, FullLayout, ShortSegments, 0)],
      [name |-> NameText, package |-> MakePackage(400, FullLayout, ShortSegments, 0)],
      [name |-> NameDotOnly, package |-> MakePackage(500, FullLayout, ShortSegments, 0)],
      [name |-> NameUpper, package |-> MakePackage(600, FullLayout, ShortSegments, 0)] }

\* What fs::read_dir may yield: the entries of the directory, each once, in an
\* order the file system chooses.
RECURSIVE Listings(_)
Listings(n) ==
    IF n = 0 THEN { <<>> }
    ELSE {Append(l, e) : l \in Listings(n - 1), e \in DirectoryEntries}

ReadDir ==
    {l \in UNION {Listings(n) : n \in 1..MaxEntries} :
        \A i, j \in 1..Len(l) : i # j => l[i].name # l[j].name}

\* Path::extension of a file name: what follows the last '.', none when there
\* is no '.' or nothing before the last '.'.
PathExtension(name) ==
    LET dots == {k \in 1..Len(name) : name[k] = "."}
    IN  IF dots = {} \/ Max(dots \cup {1}) = 1
        THEN [some |-> FALSE, value |-> <<>>]
        ELSE [some |-> TRUE, value |-> SubSeq(name, Max(dots) + 1, Len(name))]

\* The two `continue`s of Playlist::load, without the rule for '_'.
SkippedByExtensionOnly(name) ==
    PathExtension(name) # [some |-> TRUE, value |-> << "j", "s", "o", "n" >>]

\* The two `continue`s of Playlist::load.
Skipped(name) ==
    \/ PathExtension(name) # [some |-> TRUE, value |-> << "j", "s", "o", "n" >>]
    \/ (Len(name) > 0 /\ name[1] = "_")

\* The packages vector Playlist::load builds from the first n entries.
RECURSIVE LoadedPackages(_, _)
LoadedPackages(entries, n) ==
    IF n = 0 THEN <<>>
    ELSE IF Skipped(entries[n].name)
         THEN LoadedPackages(entries, n - 1)
         ELSE Append(LoadedPackages(entries, n - 1), entries[n].package)

\* Playlist::load
PlaylistLoad(start, entries) ==
    PlaylistNew(start, LoadedPackages(entries, Len(entries)))

InitLoad ==
    /\ directory \in ReadDir
    /\ phase = "startup"
    /\ packages = <<>>
    /\ speed = 1
    /\ playlist = None
    /\ clock = 0
    /\ response = None
    /\ restarts = 0
    /\ index = None
    /\ inflight = [w \in Workers |-> Idle]
    /\ term_bases = <<>>
    /\ term_ticks = <<>>
    /\ summed = {}
    /\ running = 0

\* main: Playlist::load on the packages directory.
LoadDirectory ==
    /\ phase = "startup"
    /\ packages' = LoadedPackages(directory, Len(directory))
    /\ LET pl == PlaylistLoad(clock, directory)
       IN  IF pl.panic # ""
           THEN /\ phase' = "crashed"
                /\ playlist' = playlist
           ELSE /\ phase' = "serving"
                /\ playlist' = pl
    /\ UNCHANGED <<speed, clock, response>>
    /\ UNCHANGED <<opsVars, inflight, directory, durationVars>>

NextLoad == LoadDirectory

SpecLoad == InitLoad /\ [][NextLoad]_vars

\* A file name of the form <stem>.json with a stem that is not empty.
EndsInDotJson(name) ==
    /\ Len(name) > 5
    /\ SubSeq(name, Len(name) - 4, Len(name)) = << ".", "j", "s", "o", "n" >>

\* The vids of the entries that are enabled manifests.
EnabledVids ==
    {directory[k].package.vid : k \in
        {k \in 1..Len(directory) :
            EndsInDotJson(directory[k].name) /\ directory[k].name[1] # "_"}}

\* The vids of the sources a loaded channel plays.
ChannelVids(pl) ==
    {pl.items[k].vid : k \in 1..Len(pl.items)}
    \cup UNION {{pl.streams[i].sources[k].vid : k \in 1..Len(pl.streams[i].sources)} :
                   i \in 1..Len(pl.streams)}

\* C18: once the directory is loaded, the packages are exactly the entries
\* whose extension is json and whose name does not begin with '_', and no
\* other entry has a source in the channel.
C18_LoadsEnabledManifestsOnly ==
    phase # "startup" =>
        /\ {packages[k].vid : k \in 1..Len(packages)} = EnabledVids
        /\ Len(packages) = Cardinality(EnabledVids)
        /\ phase = "serving" => ChannelVids(playlist) = EnabledVids

\* C18 witness: a directory with an enabled manifest, a disabled manifest and
\* a file that is no manifest was loaded, and the channel plays the enabled
\* manifest only.
C18_Witness ==
    /\ phase = "serving"
    /\ \E i, j \in 1..Len(directory) :
          /\ directory[i].name = NameDisabled
          /\ directory[j].name \in {NameText, NameDotOnly, NameUpper}
    /\ ChannelVids(playlist) = {100}

\* Byte values of the characters file names are made of.
CharCode(c) ==
    CASE c = "." -> 46 [] c = "J" -> 74 [] c = "N" -> 78 [] c = "O" -> 79
      [] c = "S" -> 83 [] c = "_" -> 95 [] c = "a" -> 97 [] c = "b" -> 98
      [] c = "c" -> 99 [] c = "d" -> 100 [] c = "j" -> 106 [] c = "n" -> 110
      [] c = "o" -> 111 [] c = "s" -> 115 [] c = "t" -> 116 [] c = "x" -> 120

\* a sorts before b by file name.
RECURSIVE NameBefore(_, _)
NameBefore(a, b) ==
    IF Len(a) = 0 THEN Len(b) > 0
    ELSE IF Len(b) = 0 THEN FALSE
    ELSE IF a[1] # b[1] THEN CharCode(a[1]) < CharCode(b[1])
    ELSE NameBefore(Tail(a), Tail(b))

\* The file name of the manifest a vid was loaded from.
NameOfVid(vid) ==
    directory[CHOOSE k \in 1..Len(directory) : directory[k].package.vid = vid].name

\* C19: the channel plays the sources in the sorted-by-filename order of the
\* manifests, whatever order the directory was enumerated in.
C19_ChannelOrderIsSortedByFilename ==
    phase = "serving" =>
        \A i, j \in 1..Len(playlist.items) :
            i < j => NameBefore(NameOfVid(playlist.items[i].vid),
                                NameOfVid(playlist.items[j].vid))

\* ====================================================== the first segment
\* The end offset within its source of segment k (from 0) of a stream source:
\* the durations of the source's segments up to and including k.
EndOffset(stream, source, k) ==
    SumSeq([j \in 1..(k + 1) |-> Nth(stream.segments, source.segments.start + j - 1).duration])

\* The segments of the playhead's source that end at or after the playhead.
SegmentsAtOrAfter(stream, playhead) ==
    LET source == Nth(stream.sources, playhead.source_index)
    IN  {k \in 0..(source.segments.end - source.segments.start - 1) :
            EndOffset(stream, source, k) >= playhead.offset_in_source}

InLoopOffset(r) == DurationModulo(ElapsedOf(r), playlist.duration).remainder

\* The pairs <<finished, started>> of consecutive entries of the sources map
\* that meet exactly at an offset.
BoundaryAt(offset) ==
    {pair \in playlist.sources \X playlist.sources :
        /\ pair[1].key = offset
        /\ pair[2].start = offset
        /\ pair[2].key > offset}

\* The entry of the sources map with the least key.
FirstEntry == CHOOSE e \in playlist.sources : \A f \in playlist.sources : e.key <= f.key

\* A request was answered for which Playlist::at returned a playhead.
PlayheadReturned ==
    /\ response # None
    /\ PlayheadAt(playlist, ElapsedOf(response)).panic = ""

\* C21 as stated: at an offset exactly between two consecutive sources the
\* playhead names the just-started source with offset_in_source 0; at offset 0
\* it names the first source of the map.
C21_BoundaryNamesStartedSource ==
    PlayheadReturned =>
        LET playhead == PlayheadAt(playlist, ElapsedOf(response))
            offset == InLoopOffset(response)
        IN  /\ \A pair \in BoundaryAt(offset) :
                  /\ playhead.source_index = pair[2].index
                  /\ playhead.offset_in_source = 0
            /\ offset = 0 =>
                  /\ playhead.source_index = FirstEntry.index
                  /\ playhead.offset_in_source = 0

\* C21 amended: at an offset exactly between two consecutive sources the
\* playhead names the finished source, the first whose end is >= the offset,
\* with offset_in_source equal to that source's whole duration; at offset 0 it
\* names the first source of the map with offset_in_source 0.
C21_BoundaryNamesFinishedSource ==
    PlayheadReturned =>
        LET playhead == PlayheadAt(playlist, ElapsedOf(response))
            offset == InLoopOffset(response)
        IN  /\ \A pair \in BoundaryAt(offset) :
                  /\ playhead.source_index = pair[1].index
                  /\ playhead.offset_in_source = pair[1].key - pair[1].start
            /\ offset = 0 =>
                  /\ playhead.source_index = FirstEntry.index
                  /\ playhead.offset_in_source = 0

\* C21 witness: in a library of two packages with one variant per stream, a
\* request was answered exactly at the end of the first package.
C21_Witness ==
    /\ OneVariantPerStream(packages)
    /\ Rendered(response)
    /\ BoundaryAt(InLoopOffset(response)) # {}
    /\ response.out.source = 0
    /\ PlayheadAt(playlist, ElapsedOf(response)).offset_in_source > 0

\* ================================================== one source for all streams
\* The vid of the source the first item of a window belongs to.
FirstWindowVid(stream, items) == Nth(stream.sources, Nth(items, 0).source).vid

\* C22: every stream's window starts in the same source as the top video
\* stream's window: the first emitted segment of a stream belongs to the
\* package at playhead.source_index, and so does the first segment the top
\* video stream emits for the same request.
C22_WindowsStartInPlayheadSource ==
    Rendered(response) =>
        LET stream == StreamOf(response)
            playhead == PlayheadAt(playlist, ElapsedOf(response))
            top == QueueTake(Nth(playlist.streams, 0), playhead, LOOKAHEAD)
            package == Nth(packages, playhead.source_index)
        IN  /\ Nth(response.out.window, 0).source = playhead.source_index
            /\ FirstWindowVid(stream, response.out.window) = package.vid
            /\ top.panic = ""
            /\ Nth(top.items, 0).source = playhead.source_index
            /\ FirstWindowVid(Nth(playlist.streams, 0), top.items) = package.vid

\* ========================================================= what assembly checks
\* The total duration of a stream's flat segment vector, in steps.
StreamTotal(stream) ==
    SumSeq([k \in 1..Len(stream.segments) |-> stream.segments[k].duration])

\* C23: a library is served only if every stream's total duration equals the
\* loop length, audio being allowed one rounding step of difference; a
\* mismatching library is rejected at assembly.
C23_MismatchRejectedAtAssembly ==
    phase = "serving" =>
        \A i \in 0..(N_STREAMS - 1) :
            LET stream == Nth(playlist.streams, i)
                difference == StreamTotal(stream) - playlist.duration
            IN  IF stream.kind = Audio
                THEN difference \in {0 - 1, 0, 1}
                ELSE difference = 0

\* Some variant of the library has no stream of its kind with exactly its
\* bitrate.
OffTargetBitrate(pkgs) ==
    \E p \in 1..Len(pkgs) : \E v \in 1..Len(pkgs[p].variants) :
        \A i \in 0..(N_STREAMS - 1) :
            \/ Nth(NewStreams, i).kind # pkgs[p].variants[v].kind
            \/ Nth(NewStreams, i).bitrate # pkgs[p].variants[v].bitrate

\* C24: a variant is recorded into a stream only when its kind and its bitrate
\* equal the stream's; a library with a variant of any other bitrate, lower or
\* higher, never gets past startup.
C24_OffTargetBitrateFailsStartup ==
    OffTargetBitrate(packages) => (phase # "serving" /\ response = None)

\* The first variant of a package whose kind is the stream's.
FirstMatching(package, stream) ==
    LET matching == {v \in 1..Len(package.variants) :
                        package.variants[v].kind = stream.kind}
    IN  IF matching = {} THEN None ELSE package.variants[Min(matching)]

\* The ranges of a stream's sources tile its flat segment vector in order.
RangesTile(stream) ==
    /\ \A i \in 1..Len(stream.sources) :
          /\ stream.sources[i].segments.start
               = (IF i = 1 THEN 0 ELSE stream.sources[i - 1].segments.end)
          /\ stream.sources[i].segments.start <= stream.sources[i].segments.end
    /\ Len(stream.segments)
         = (IF stream.sources = <<>> THEN 0
            ELSE stream.sources[Len(stream.sources)].segments.end)

\* C25: after assembly every stream holds exactly one StreamSource per package,
\* in channel order: source i carries the vid of package i and the init of the
\* package's first matching variant, and the ranges tile the segment vector.
C25_OneSourcePerPackage ==
    phase = "serving" =>
        \A i \in 0..(N_STREAMS - 1) :
            LET stream == Nth(playlist.streams, i)
            IN  /\ Len(stream.sources) = Len(packages)
                /\ \A p \in 1..Len(stream.sources) :
                      /\ p <= Len(packages)
                      /\ stream.sources[p].vid = packages[p].vid
                      /\ FirstMatching(packages[p], stream) # None
                      /\ stream.sources[p].init
                           = FirstMatching(packages[p], stream).init_src
                /\ RangesTile(stream)

\* ================================================ tags between two segments
\* The line of the emitted segment before the one on line u; 0 if none.
PreviousUri(lines, u) ==
    Max({0} \cup {q \in LinesTagged(lines, "URI") : q < u})

\* The number of discontinuity tags between the emitted segment on line u
\* and the one emitted before it.
TagsBetween(lines, u) ==
    Cardinality({d \in (PreviousUri(lines, u) + 1)..(u - 1) :
                    lines[d].tag = "EXT-X-DISCONTINUITY"})

\* The emitted segment on line u and the one emitted before it are
\* consecutive segments of one variant of one package, read off the segment
\* resources.
SameOccurrence(lines, u) ==
    LET this == lines[PreviousUri(lines, u)].uri.resource
        next == lines[u].uri.resource
    IN  /\ this[2] = next[2]
        /\ this[3] = next[3]
        /\ next[4] = this[4] + 1

\* The lines of emitted segments that follow another emitted segment.
FollowingUris(lines) ==
    {u \in LinesTagged(lines, "URI") : PreviousUri(lines, u) # 0}

\* C26: between two consecutive emitted segments of a rendered playlist there
\* is exactly one EXT-X-DISCONTINUITY tag when they belong to different source
\* occurrences, the wrap to the next loop included, and none when they belong
\* to the same source occurrence.
C26_OneTagBetweenOccurrences ==
    Rendered(response) =>
        LET lines == response.out.lines
        IN  \A u \in FollowingUris(lines) :
                TagsBetween(lines, u) = (IF SameOccurrence(lines, u) THEN 0 ELSE 1)

\* C26 witness: a window over two packages that holds two segments of one
\* occurrence, a change of package, and the wrap from the last package back
\* to the first, with one tag at the change and one at the wrap.
C26_Witness ==
    /\ OneVariantPerStream(packages)
    /\ Len(packages) = 2
    /\ Rendered(response)
    /\ LET lines == response.out.lines
           pairs == FollowingUris(lines)
           vidBefore(u) == lines[PreviousUri(lines, u)].uri.vid
       IN  /\ \E u \in pairs : SameOccurrence(lines, u) /\ TagsBetween(lines, u) = 0
           /\ \E u \in pairs : /\ vidBefore(u) = packages[1].vid
                               /\ lines[u].uri.vid = packages[2].vid
                               /\ TagsBetween(lines, u) = 1
           /\ \E u \in pairs : /\ vidBefore(u) = packages[2].vid
                               /\ lines[u].uri.vid = packages[1].vid
                               /\ TagsBetween(lines, u) = 1

\* ============================================================ schedule export
\* Playlist::schedule: a copy of the step, the loop length, the start and the
\* items the top-stream walk pushed.
Schedule(pl) ==
    [step |-> pl.step,
     duration |-> pl.duration,
     start |-> pl.start,
     items |-> pl.items]

\* The entry of the sources map recorded for the package at index pi, if any.
EntriesOf(pi) == {e \in playlist.sources : e.index = pi}

\* C27: the sources map has exactly one entry per package, with strictly
\* increasing ends in channel order, the first starting at 0, each starting
\* where the previous one ended and the last ending at playlist.duration; the
\* exported schedule lists per package, in channel order, its vid, that start
\* and the duration of the source.
C27_WalkPartitionsLoop ==
    phase = "serving" =>
        LET items == Schedule(playlist).items
            n == Len(packages)
        IN  /\ Cardinality(playlist.sources) = n
            /\ Len(items) = n
            /\ \A pi \in 0..(n - 1) :
                  /\ Cardinality(EntriesOf(pi)) = 1
                  /\ \A e \in EntriesOf(pi) :
                        /\ e.start < e.key
                        /\ IF pi = 0 THEN e.start = 0
                           ELSE \E previous \in EntriesOf(pi - 1) : e.start = previous.key
                        /\ pi = n - 1 => e.key = playlist.duration
                        /\ Nth(items, pi).vid = Nth(packages, pi).vid
                        /\ Nth(items, pi).start = e.start
                        /\ Nth(items, pi).duration = e.key - e.start

\* =================================================== the init of the own source
\* C28: in a rendered playlist the EXT-X-MAP in scope for an emitted segment
\* names the init resource of the segment's own StreamSource, also when two
\* consecutive sources of the stream carry the same vid.
C28_MapInScopeIsOwnInit ==
    Rendered(response) =>
        LET lines == response.out.lines
            stream == StreamOf(response)
        IN  \A j \in 0..(Len(response.out.window) - 1) :
                LET source == Nth(stream.sources, Nth(response.out.window, j).source)
                    maps == {m \in LinesTagged(lines, "EXT-X-MAP") : m < UriLine(lines, j)}
                IN  /\ maps # {}
                    /\ lines[Max(maps)].uri = ResourceUri(source.init, source.vid)

====
